---------------------------- MODULE Spec2Model ----------------------------
(***************************************************************************)
(* Request pipeline, session store and OAuth flow of rkgcloud/crud.        *)
(*                                                                         *)
(* One client (a browser with one cookie jar) sends requests one after the *)
(* other to one server process.  A request is served by two goroutines:    *)
(* the serving goroutine runs Recovery, RequestLogger, SecurityHeaders,    *)
(* CORS, RateLimiter and the serving half of RequestTimeout; the goroutine *)
(* that RequestTimeout starts runs the session stage, the authentication   *)
(* gate and the route handler.  Both share the gin.Context and its         *)
(* ResponseWriter.  Every call into gin, gin-contrib/sessions, net/http or *)
(* ulule/limiter is one step; the two goroutines interleave between calls. *)
(***************************************************************************)
EXTENDS Integers, Sequences, FiniteSets, TLC

(***************************************************************************)
(* Bounds of the model.                                                    *)
(***************************************************************************)
\* requests the client sends in one run
MaxRequests == 3
\* cfg.Security.RateLimitPerMinute, the limit L of the rate limiter
RateLimitPerMinute == 2
\* the wall clock runs from 0 to MaxTime seconds ...
MaxTime == 60
\* ... in steps of TickStep seconds
TickStep == 30
\* state tokens generateStateToken can hand out in one run
MaxTokens == 2
\* requests that are inside RateLimiter at the same time
MaxConcurrent == 3
\* the longest SECRET the environment is given, in the units len counts
MaxSecretLen == 34
\* calls of flash functions that are followed
MaxCalls == 4
\* identifiers newAccountNumber chooses from
MaxUsers == 2
\* callback requests that present one and the same cookie
MaxReplays == 2
\* requests that clients send again after an answer
MaxAgain == 2
\* clients that send requests over several windows
MaxClients == 2

(***************************************************************************)
(* Program constants.                                                      *)
(***************************************************************************)
\* limiter.Rate.Period = time.Minute, in seconds
Period == 60
\* len(c.Session.Secret) < 32
MinSecretLen == 32
\* len("change-me-in-production-this-is-not-secure")
DefaultSecretLen == 42
\* limits of the input validation functions
maxNameLength == 100
maxEmailLength == 255
maxPhoneLength == 20
\* the least number newAccountNumber returns
MinAccountNumber == 10000
StatusConflict == 409
\* gin's default status of a response nobody set a status on
StatusOK == 200
StatusNoContent == 204
StatusFound == 302
StatusBadRequest == 400
StatusForbidden == 403
StatusRequestTimeout == 408
StatusTooManyRequests == 429
StatusInternalServerError == 500

IPs == {"ip1", "ip2"}

(***************************************************************************)
(* auth.LoggedInUser and the profiles the provider's userinfo endpoint can *)
(* return.  A Picture of "LONG" stands for a value that makes the encoded  *)
(* session exceed what the cookie codec accepts, a Picture of "BIG" for    *)
(* one with which the session fits only while it holds no state token.     *)
(***************************************************************************)
LoggedInUser(id, name, email, phone, picture) ==
    [ID |-> id, Name |-> name, Email |-> email, Phone |-> phone, Picture |-> picture]

EmptyUser == LoggedInUser("", "", "", "", "")

Profiles ==
    { LoggedInUser("u1", "Ann", "a@b.com", "", "pic"),
      LoggedInUser("u1", "Ann", "a@b.com", "", "BIG"),
      LoggedInUser("u1", "Ann", "a@b.com", "", "LONG"),
      LoggedInUser("u1", "Ann", "", "", "pic"),
      LoggedInUser("", "Ann", "a@b.com", "", "pic"),
      LoggedInUser("", "", "", "", "") }

(***************************************************************************)
(* Session values (gorilla session.Values restricted to the keys of        *)
(* session.go).  user.ptr tells whether the stored interface value is the  *)
(* *auth.LoggedInUser that SetLoggedInUser stores or the auth.LoggedInUser *)
(* that decoding a cookie yields.  token 0 is "no stateToken key".  A      *)
(* flash key holds a message, or nil when the key is absent.               *)
(***************************************************************************)
nil == "<nil>"

\* the four flash keys of session.go
FlashKeys == {"flashError", "flashSuccess", "flashWarning", "flashInfo"}

\* messages a caller stores; "HUGE" is longer than a cookie may be
Messages == {"", "saved", "HUGE"}

EmptyValues ==
    [user |-> [set |-> FALSE, ptr |-> FALSE, val |-> EmptyUser], token |-> 0,
     flashError |-> nil, flashSuccess |-> nil, flashWarning |-> nil, flashInfo |-> nil]

NoCookie == [set |-> FALSE, vals |-> EmptyValues]

\* securecookie refuses to encode a value longer than its maximum length
Encodable(vals) ==
    /\ ~(/\ vals.user.set
         /\ \/ vals.user.val.Picture = "LONG"
            \/ vals.user.val.Picture = "BIG" /\ vals.token # 0)
    /\ \A key \in FlashKeys : vals[key] # "HUGE"

\* gob encodes a pointer as the value it points to
Encode(vals) == [set |-> TRUE, vals |-> [vals EXCEPT !.user.ptr = FALSE]]

\* the session the cookie store hands out for a request's cookie
Decode(cookie) == IF cookie.set THEN cookie.vals ELSE EmptyValues

(***************************************************************************)
(* pkg/session: typed accessors over the session values.                   *)
(***************************************************************************)
\* user.(auth.LoggedInUser) panics when the value is a *auth.LoggedInUser
GetLoggedInUserPanics(vals) == vals.user.set /\ vals.user.ptr

GetLoggedInUser(vals) == IF vals.user.set THEN vals.user.val ELSE EmptyUser

IsLoggedIn(vals) == GetLoggedInUser(vals).ID # ""

GetStateToken(vals) == vals.token

(***************************************************************************)
(* gin's ResponseWriter over net/http.  status is the status gin holds,    *)
(* written tells whether the header block has gone out; sentStatus and     *)
(* sentHdr are what went out then (net/http ignores later header changes). *)
(* body lists, per chunk written, the stage that wrote it.  final is set   *)
(* when ServeHTTP has returned and the response is complete.               *)
(***************************************************************************)
NoRate == [set |-> FALSE, limit |-> 0, remaining |-> 0, reset |-> 0]

NoHeaders == [rate |-> NoRate, sec |-> FALSE, cors |-> FALSE, loc |-> "", cookie |-> NoCookie]

NewWriter ==
    [status |-> StatusOK, written |-> FALSE, hdr |-> NoHeaders,
     sentStatus |-> 0, sentHdr |-> NoHeaders, body |-> << >>, final |-> FALSE]

\* responseWriter.WriteHeader: after the header block went out the status stays
WriteHeader(ww, code) ==
    IF code > 0 /\ ww.status # code /\ ~ww.written
    THEN [ww EXCEPT !.status = code]
    ELSE ww

\* responseWriter.WriteHeaderNow
WriteHeaderNow(ww) ==
    IF ww.written
    THEN ww
    ELSE [ww EXCEPT !.written = TRUE, !.sentStatus = ww.status, !.sentHdr = ww.hdr]

\* responseWriter.Write
Write(ww, by) == [WriteHeaderNow(ww) EXCEPT !.body = Append(@, by)]

\* c.JSON(code, obj), c.HTML(code, ...): c.Status(code), then the rendered body
JSON(ww, code, by) == Write(WriteHeader(ww, code), by)

\* c.Redirect(code, location) of a GET: http.Redirect sets Location, then
\* WriteHeader(code), then writes the short HTML body
Redirect(ww, code, location, by) ==
    Write(WriteHeader([ww EXCEPT !.hdr.loc = location], code), by)

\* c.AbortWithStatus(code), the writer's part
AbortWithStatus(ww, code) == WriteHeaderNow(WriteHeader(ww, code))

\* c.Header(key, value) and http.SetCookie on the header map
SetHeader(ww, key, value) == [ww EXCEPT !.hdr[key] = value]

\* a call made on the writer after ServeHTTP returned does not reach the response
Late(ww, result) == IF ww.final THEN ww ELSE result

(***************************************************************************)
(* gin-contrib/sessions over the cookie store.                             *)
(***************************************************************************)
NewSession(cookie) == [vals |-> Decode(cookie), written |-> FALSE]

SessionSet(ss, key, value) == [ss EXCEPT !.vals[key] = value, !.written = TRUE]

\* s.Delete(key)
SessionDelete(ss, key) ==
    [ss EXCEPT !.vals[key] = EmptyValues[key], !.written = TRUE]

\* s.Save() reports an error when the values cannot be encoded
SaveFails(ss) == ss.written /\ ~Encodable(ss.vals)

\* s.Save(), the session's part: written is cleared when the store saved
SaveSession(ss) ==
    IF ss.written /\ Encodable(ss.vals) THEN [ss EXCEPT !.written = FALSE] ELSE ss

\* s.Save(), the writer's part: http.SetCookie(w, ...) with the encoded values
SaveWriter(ss, ww) ==
    IF ss.written /\ Encodable(ss.vals)
    THEN Late(ww, SetHeader(ww, "cookie", Encode(ss.vals)))
    ELSE ww

(***************************************************************************)
(* ulule/limiter with the memory store, as RateLimiter configures it.      *)
(***************************************************************************)
NoCounter == [count |-> 0, exp |-> 0]

\* a counter that is still live at the instant of its expiration
ExpiredLater(counter, t) == counter.exp = 0 \/ t > counter.exp

\* Counter.Expired
Expired(counter, t) == counter.exp = 0 \/ t >= counter.exp

\* Cache.Increment(key, 1, rate.Period)
Increment(counter, t) ==
    IF Expired(counter, t)
    THEN [count |-> 1, exp |-> t + Period]
    ELSE [counter EXCEPT !.count = @ + 1]

\* a limit that is reached with the request that uses up the last slot
ReachedAtLimit(count, limit) == count >= limit

\* a remaining count that is not clamped at zero
RemainingUnclamped(count, limit) == limit - count

\* limiter.Context.Reached
Reached(count, limit) == count > limit

\* limiter.Context.Remaining
Remaining(count, limit) == IF count <= limit THEN limit - count ELSE 0

\* common.GetContextFromState
GetContextFromState(counter, limit) ==
    [limit |-> limit, remaining |-> Remaining(counter.count, limit),
     reset |-> counter.exp, reached |-> Reached(counter.count, limit)]

(***************************************************************************)
(* Routes of setupRouter.  Gated holds the routes registered in a group    *)
(* that uses authMiddleware.                                               *)
(***************************************************************************)
Gated == {"/", "/accounts", "/image", "/users/:id", "/accounts/"}

Public == {"/login", "/auth/google", "/auth/callback", "/logout", "/health/live"}

Routes == Gated \cup Public

(***************************************************************************)
(* pkg/config.  A secret is modelled by its length as len counts it, 0      *)
(* for a SECRET that is unset or empty (getEnv treats both alike).          *)
(***************************************************************************)
\* a validate that substitutes the default and checks nothing
validateNothing(secret) ==
    [secret |-> IF secret = 0 THEN DefaultSecretLen ELSE secret, err |-> FALSE]

\* Config.validate: the secret the configuration ends with, and the error
validate(secret) ==
    LET substituted == IF secret = 0 THEN DefaultSecretLen ELSE secret
    IN [secret |-> substituted, err |-> substituted < MinSecretLen]

\* config.Load: getEnv("SECRET", ""), then validate; no Config on error
Load(env) ==
    LET validated == validate(env.SECRET)
    IN IF validated.err
       THEN [err |-> TRUE, secret |-> 0]
       ELSE [err |-> FALSE, secret |-> validated.secret]

\* an App that Initialize has set up with a secret of the minimum length
Running ==
    [env |-> [SECRET |-> MinSecretLen, GOOGLE_CLIENT_ID |-> TRUE, GOOGLE_CLIENT_SECRET |-> TRUE],
     config |-> [err |-> FALSE, secret |-> MinSecretLen], state |-> "running"]

\* no function of pkg/session has been called; pending[key] is the message
\* a SetFlash stored under key that no GetFlash has returned yet, nil when
\* there is none, "?" when the SetFlash reported an error
NoCall ==
    [n |-> 0, fn |-> "", key |-> "", ret |-> "", err |-> FALSE,
     pending |-> [key \in FlashKeys |-> nil]]

\* a record store without users and accounts; seq is the last account id the
\* store has handed out
EmptyDB == [users |-> {}, accounts |-> {}, seq |-> 0]

\* a request without form values and without path parameter; a string of a
\* form is the sequence of its characters
NoForm ==
    [name |-> << >>, email |-> << >>, phone |-> << >>,
     userid |-> << >>, balance |-> << >>, id |-> << >>]

(***************************************************************************)
(* State.                                                                  *)
(***************************************************************************)
VARIABLES
    now,      \* wall clock, seconds
    store,    \* the limiter's memory store: client IP -> counter
    jar,      \* the session cookie the client's browser holds
    up,       \* the server process is running
    served,   \* requests sent so far
    issued,   \* state tokens generated so far
    mpc,      \* where the serving goroutine of the request is
    gpc,      \* where the goroutine started by RequestTimeout is
    c,        \* the request's gin.Context
    w,        \* the request's ResponseWriter
    s,        \* the request's session
    win,      \* history: per client IP, start and size of its current rate window
    accepted, \* history: per state token, the callbacks that passed the state check
    inflight, \* requests that are served at the same time, each with its own state
    app,      \* the App: its environment, its loaded configuration, whether it runs
    call,     \* the last call of a function of pkg/session made on the session
    db        \* the record store: users and accounts

vars == <<now, store, jar, up, served, issued, mpc, gpc, c, w, s, win, accepted, inflight, app, call, db>>

Tokens == 1..MaxTokens

NoLimiterContext == [set |-> FALSE, limit |-> 0, remaining |-> 0, reset |-> 0, reached |-> FALSE]

\* the gin.Context of a new request carrying the given cookie; gate, calls, acts,
\* panicked, branch, atDeadline and fetch record what the stages did with the
\* request; url is the state parameter of the provider URL it was redirected to
NewContext(cookie) ==
    [cookie |-> cookie, route |-> "", ip |-> "", origin |-> "",
     aborted |-> FALSE, user |-> [set |-> FALSE, val |-> EmptyUser],
     deadline |-> "off", done |-> 0, branch |-> "",
     rl |-> NoLimiterContext, state |-> 0, profile |-> EmptyUser,
     gate |-> "none", calls |-> 0, acts |-> << >>, panicked |-> "", atDeadline |-> "",
     fetch |-> "", url |-> 0, form |-> NoForm]

Act(by, code, location) == [by |-> by, code |-> code, loc |-> location]

NoSession == [vals |-> EmptyValues, written |-> FALSE]

Init ==
    /\ now = 0
    /\ store = [ip \in IPs |-> NoCounter]
    /\ jar = NoCookie
    /\ up = TRUE
    /\ served = 0
    /\ issued = 0
    /\ mpc = "idle"
    /\ gpc = "idle"
    /\ c = NewContext(NoCookie)
    /\ w = [NewWriter EXCEPT !.final = TRUE]
    /\ s = NoSession
    /\ win = [ip \in IPs |-> [start |-> -1, n |-> 0]]
    /\ accepted = [t \in Tokens |-> 0]
    /\ inflight = << >>
    /\ app = Running
    /\ call = NoCall
    /\ db = EmptyDB

(***************************************************************************)
(* The clock advances between requests.                                    *)
(***************************************************************************)
Tick ==
    /\ up /\ mpc = "idle" /\ gpc = "idle"
    /\ now + TickStep <= MaxTime
    /\ now' = now + TickStep
    /\ UNCHANGED <<store, jar, up, served, issued, mpc, gpc, c, w, s, win, accepted, inflight, app, call, db>>

(***************************************************************************)
(* The client sends a request with the cookie of its jar; the engine hands *)
(* it a fresh context and writer and starts the chain.                     *)
(***************************************************************************)
Arrive ==
    /\ up /\ mpc = "idle" /\ gpc = "idle"
    /\ served < MaxRequests
    /\ served' = served + 1
    /\ c' = NewContext(jar)
    /\ w' = NewWriter
    /\ s' = NoSession
    /\ mpc' = "Recovery"
    /\ UNCHANGED <<now, store, jar, up, issued, gpc, win, accepted, inflight, app, call, db>>

(***************************************************************************)
(* The stages the serving goroutine runs, in the order of setupRouter.     *)
(***************************************************************************)
\* middleware.Recovery: gin.CustomRecovery defers its recover and calls c.Next()
Recovery ==
    /\ up /\ mpc = "Recovery"
    /\ mpc' = "RequestLogger"
    /\ UNCHANGED <<now, store, jar, up, served, issued, gpc, c, w, s, win, accepted, inflight, app, call, db>>

\* a stage downstream of Recovery panics on the serving goroutine: the deferred
\* recover of CustomRecovery runs the handler given to it
RecoveryHandle ==
    /\ up /\ mpc \in {"RequestLogger", "SecurityHeaders", "CORS", "RateLimiter", "RequestTimeout"}
    /\ w' = JSON(w, StatusInternalServerError, "recovery")
    /\ c' = [c EXCEPT !.aborted = TRUE, !.panicked = "serving",
                      !.acts = Append(@, Act("recovery", StatusInternalServerError, ""))]
    /\ mpc' = "return"
    /\ UNCHANGED <<now, store, jar, up, served, issued, gpc, s, win, accepted, inflight, app, call, db>>

\* middleware.RequestLogger: gin's logger notes the start time and calls c.Next()
RequestLogger ==
    /\ up /\ mpc = "RequestLogger"
    /\ mpc' = "SecurityHeaders"
    /\ UNCHANGED <<now, store, jar, up, served, issued, gpc, c, w, s, win, accepted, inflight, app, call, db>>

\* middleware.SecurityHeaders
SecurityHeaders ==
    /\ up /\ mpc = "SecurityHeaders"
    /\ w' = SetHeader(w, "sec", TRUE)
    /\ mpc' = "CORS"
    /\ UNCHANGED <<now, store, jar, up, served, issued, gpc, c, s, win, accepted, inflight, app, call, db>>

\* middleware.CORS (gin-contrib/cors): a request without Origin or from the
\* server's own origin passes untouched; a disallowed origin is aborted with
\* 403; an allowed preflight (OPTIONS) is answered 204 and aborted; any other
\* allowed request gets the CORS headers and goes on
CORS ==
    /\ up /\ mpc = "CORS"
    /\ \E origin \in {"same", "allowed", "disallowed", "preflight"} :
         /\ c' = [c EXCEPT !.origin = origin,
                           !.aborted = origin \in {"disallowed", "preflight"},
                           !.acts = CASE origin = "disallowed" -> Append(@, Act("cors", StatusForbidden, ""))
                                      [] origin = "preflight" -> Append(@, Act("cors", StatusNoContent, ""))
                                      [] OTHER -> @]
         /\ w' = CASE origin = "same" -> w
                   [] origin = "allowed" -> SetHeader(w, "cors", TRUE)
                   [] origin = "disallowed" -> AbortWithStatus(w, StatusForbidden)
                   [] origin = "preflight" ->
                        AbortWithStatus(SetHeader(w, "cors", TRUE), StatusNoContent)
         /\ mpc' = IF origin \in {"disallowed", "preflight"} THEN "return" ELSE "RateLimiter"
    /\ UNCHANGED <<now, store, jar, up, served, issued, gpc, s, win, accepted, inflight, app, call, db>>

\* the rate window as the specification words it: it opens with the first request
\* of a client IP and lasts Period seconds; n counts the requests inside it
Window(h, t) ==
    IF h.start = -1 \/ t >= h.start + Period
    THEN [start |-> t, n |-> 1]
    ELSE [h EXCEPT !.n = @ + 1]

\* a rate limiter that sets no headers
RateHeadersNone(ww, limiterContext) == ww

\* middleware.RateLimiter: the three X-RateLimit headers
RateHeaders(ww, limiterContext) ==
    SetHeader(ww, "rate",
        [set |-> TRUE, limit |-> limiterContext.limit,
         remaining |-> limiterContext.remaining, reset |-> limiterContext.reset])

\* middleware.RateLimiter; the memory store never returns an error
RateLimiter ==
    /\ up /\ mpc = "RateLimiter"
    /\ \E key \in IPs :
         LET counter == Increment(store[key], now)
             limiterContext == GetContextFromState(counter, RateLimitPerMinute)
             headers == RateHeaders(w, limiterContext)
         IN /\ store' = [store EXCEPT ![key] = counter]
            /\ win' = [win EXCEPT ![key] = Window(@, now)]
            /\ IF limiterContext.reached
               THEN /\ w' = JSON(headers, StatusTooManyRequests, "ratelimiter")
                    /\ c' = [c EXCEPT !.ip = key, !.aborted = TRUE,
                                      !.rl = limiterContext @@ [set |-> TRUE],
                                      !.acts = Append(@, Act("ratelimiter", StatusTooManyRequests, ""))]
                    /\ mpc' = "return"
               ELSE /\ w' = headers
                    /\ c' = [c EXCEPT !.ip = key,
                                      !.rl = limiterContext @@ [set |-> TRUE]]
                    /\ mpc' = "RequestTimeout"
    /\ UNCHANGED <<now, jar, up, served, issued, gpc, s, accepted, inflight, app, call, db>>

\* middleware.RequestTimeout up to the select: the context gets its deadline, the
\* done channel is made and the goroutine that runs c.Next() is started
RequestTimeout ==
    /\ up /\ mpc = "RequestTimeout"
    /\ c' = [c EXCEPT !.deadline = "armed"]
    /\ gpc' = "Next"
    /\ mpc' = "select"
    /\ UNCHANGED <<now, store, jar, up, served, issued, w, s, win, accepted, inflight, app, call, db>>

\* the deadline of context.WithTimeout passes; a serving goroutine parked in the
\* select is resumed on its ctx.Done() case
TimerFire ==
    /\ up /\ c.deadline = "armed"
    /\ c' = [c EXCEPT !.deadline = "fired",
                      !.atDeadline = IF gpc = "idle" THEN "returned" ELSE "running",
                      !.branch = IF mpc = "blocked" THEN "timeout" ELSE @]
    /\ mpc' = IF mpc = "blocked" THEN "timeout" ELSE mpc
    /\ UNCHANGED <<now, store, jar, up, served, issued, gpc, w, s, win, accepted, inflight, app, call, db>>

\* the serving goroutine reaches the select: it takes a case that is ready (either
\* one when both are) or parks
Select ==
    /\ up /\ mpc = "select"
    /\ \/ /\ c.done = 1
          /\ c' = [c EXCEPT !.done = 0, !.branch = "done", !.deadline = "cancelled"]
          /\ mpc' = "return"
       \/ /\ c.deadline = "fired"
          /\ c' = [c EXCEPT !.branch = "timeout"]
          /\ mpc' = "timeout"
       \/ /\ c.done = 0 /\ c.deadline # "fired"
          /\ c' = c
          /\ mpc' = "blocked"
    /\ UNCHANGED <<now, store, jar, up, served, issued, gpc, w, s, win, accepted, inflight, app, call, db>>

\* case <-ctx.Done(): c.JSON(http.StatusRequestTimeout, ...)
TimeoutRespond ==
    /\ up /\ mpc = "timeout"
    /\ w' = JSON(w, StatusRequestTimeout, "timeout")
    /\ c' = [c EXCEPT !.acts = Append(@, Act("timeout", StatusRequestTimeout, ""))]
    /\ mpc' = "timeoutAbort"
    /\ UNCHANGED <<now, store, jar, up, served, issued, gpc, s, win, accepted, inflight, app, call, db>>

\* case <-ctx.Done(): c.Abort(), return (the deferred cancel runs)
TimeoutAbort ==
    /\ up /\ mpc = "timeoutAbort"
    /\ c' = [c EXCEPT !.aborted = TRUE, !.deadline = "cancelled"]
    /\ mpc' = "return"
    /\ UNCHANGED <<now, store, jar, up, served, issued, gpc, w, s, win, accepted, inflight, app, call, db>>

\* the stages return one after the other and ServeHTTP ends: gin sends the header
\* block if nobody has, the response is complete and the browser stores the
\* cookie it was sent
ServeHTTPReturn ==
    /\ up /\ mpc = "return"
    /\ w' = [WriteHeaderNow(w) EXCEPT !.final = TRUE]
    /\ jar' = IF w'.sentHdr.cookie.set THEN w'.sentHdr.cookie ELSE jar
    /\ mpc' = "idle"
    /\ UNCHANGED <<now, store, up, served, issued, gpc, c, s, win, accepted, inflight, app, call, db>>

(***************************************************************************)
(* The goroutine started by RequestTimeout: c.Next() runs the session      *)
(* stage, the gate of a gated route and the route handler; then done<-true.*)
(***************************************************************************)
\* the handler function registered for a route
HandlerOf(route) ==
    CASE route = "/" -> "Index"
      [] route = "/login" -> "LoginPage"
      [] route = "/auth/google" -> "HandleGoogleLogin"
      [] route = "/auth/callback" -> "HandleGoogleCallback"
      [] route = "/logout" -> "Logout"
      [] route = "/health/live" -> "LivenessHandler"
      [] OTHER -> "Record"

\* c.Next() in the goroutine: gin runs the next handler unless the chain is aborted
GoNext ==
    /\ up /\ gpc = "Next"
    /\ gpc' = IF c.aborted THEN "send" ELSE "Sessions"
    /\ UNCHANGED <<now, store, jar, up, served, issued, mpc, c, w, s, win, accepted, inflight, app, call, db>>

\* sessions.Sessions(sessionName, store): the session of the request's cookie is
\* attached to the context; its c.Next() goes on to the chain of the route
Sessions ==
    /\ up /\ gpc = "Sessions"
    /\ s' = NewSession(c.cookie)
    /\ \E route \in Routes :
         /\ c' = [c EXCEPT !.route = route,
                           !.calls = IF ~c.aborted /\ route \notin Gated THEN @ + 1 ELSE @]
         /\ gpc' = CASE c.aborted -> "send"
                     [] route \in Gated -> "authMiddleware"
                     [] OTHER -> HandlerOf(route)
    /\ UNCHANGED <<now, store, jar, up, served, issued, mpc, w, win, accepted, inflight, app, call, db>>

\* App.authMiddleware: if !session.IsLoggedIn(c)
authMiddleware ==
    /\ up /\ gpc = "authMiddleware"
    /\ IF GetLoggedInUserPanics(s.vals)
       THEN /\ up' = FALSE
            /\ gpc' = "crashed"
            /\ c' = [c EXCEPT !.panicked = "goroutine"]
       ELSE /\ up' = up
            /\ gpc' = IF IsLoggedIn(s.vals) THEN "gatePass" ELSE "gateRedirect"
            /\ c' = c
    /\ UNCHANGED <<now, store, jar, served, issued, mpc, w, s, win, accepted, inflight, app, call, db>>

\* a gate that redirects without c.Abort() and return: the chain goes on
gateRedirectNoAbort ==
    /\ up /\ gpc = "gateRedirect"
    /\ w' = Late(w, Redirect(w, StatusFound, "/login", "gate"))
    /\ c' = [c EXCEPT !.gate = "redirect", !.calls = @ + 1,
                      !.acts = Append(@, Act("gate", StatusFound, "/login"))]
    /\ gpc' = HandlerOf(c.route)
    /\ UNCHANGED <<now, store, jar, up, served, issued, mpc, s, win, accepted, inflight, app, call, db>>

\* App.authMiddleware: c.Redirect(http.StatusFound, "/login"); c.Abort(); return
gateRedirect ==
    /\ up /\ gpc = "gateRedirect"
    /\ w' = Late(w, Redirect(w, StatusFound, "/login", "gate"))
    /\ c' = [c EXCEPT !.aborted = TRUE, !.gate = "redirect",
                      !.acts = Append(@, Act("gate", StatusFound, "/login"))]
    /\ gpc' = "send"
    /\ UNCHANGED <<now, store, jar, up, served, issued, mpc, s, win, accepted, inflight, app, call, db>>

\* a gate that sets the user and returns without c.Next()
gatePassNoNext ==
    /\ up /\ gpc = "gatePass"
    /\ w' = w
    /\ c' = [c EXCEPT !.user = [set |-> TRUE, val |-> GetLoggedInUser(s.vals)],
                      !.gate = "pass"]
    /\ gpc' = "send"
    /\ UNCHANGED <<now, store, jar, up, served, issued, mpc, s, win, accepted, inflight, app, call, db>>

\* App.authMiddleware: the second check, c.Set("loggedInUser", ...), c.Next()
gatePass ==
    /\ up /\ gpc = "gatePass"
    /\ LET loggedInUser == GetLoggedInUser(s.vals)
       IN IF loggedInUser.ID = ""
          THEN /\ w' = Late(w, Redirect(w, StatusFound, "/login", "gate"))
               /\ c' = [c EXCEPT !.aborted = TRUE, !.gate = "redirect",
                                 !.acts = Append(@, Act("gate", StatusFound, "/login"))]
               /\ gpc' = "send"
          ELSE /\ w' = w
               /\ c' = [c EXCEPT !.user = [set |-> TRUE, val |-> loggedInUser],
                                 !.gate = "pass",
                                 !.calls = IF c.aborted THEN @ ELSE @ + 1]
               /\ gpc' = IF c.aborted THEN "send" ELSE HandlerOf(c.route)
    /\ UNCHANGED <<now, store, jar, up, served, issued, mpc, s, win, accepted, inflight, app, call, db>>

\* done := make(chan bool, 1): the values the channel holds without a receiver
DoneCapacity == 1

\* a done channel without buffer has room for nothing
RoomNever(held) == FALSE

\* the channel takes one more value without a receiver
Room(held) == held < DoneCapacity

\* done <- true: the send goes through when a serving goroutine is parked in
\* the select, which is resumed on its done case, or when the channel has room
SendDone ==
    /\ up /\ gpc = "send"
    /\ mpc = "blocked" \/ Room(c.done)
    /\ gpc' = "idle"
    /\ IF mpc = "blocked"
       THEN /\ mpc' = "return"
            /\ c' = [c EXCEPT !.branch = "done", !.deadline = "cancelled"]
       ELSE /\ mpc' = mpc
            /\ c' = [c EXCEPT !.done = 1]
    /\ UNCHANGED <<now, store, jar, up, served, issued, w, s, win, accepted, inflight, app, call, db>>

(***************************************************************************)
(* Route handlers (pkg/controllers).  Each runs in the goroutine started   *)
(* by RequestTimeout.                                                      *)
(***************************************************************************)
\* a handler panics (a record-store or rendering fault): nothing recovers a panic
\* of this goroutine, the process ends
HandlerPanic ==
    /\ up /\ gpc \in {"Index", "Record"}
    /\ up' = FALSE
    /\ gpc' = "crashed"
    /\ c' = [c EXCEPT !.panicked = "goroutine"]
    /\ UNCHANGED <<now, store, jar, served, issued, mpc, w, s, win, accepted, inflight, app, call, db>>

\* controllers.Index: c.HTML(http.StatusOK, "index.html", pageData)
Index ==
    /\ up /\ gpc = "Index"
    /\ w' = Late(w, JSON(w, StatusOK, "handler"))
    /\ c' = [c EXCEPT !.acts = Append(@, Act("handler", StatusOK, ""))]
    /\ gpc' = "IndexLayout"
    /\ UNCHANGED <<now, store, jar, up, served, issued, mpc, s, win, accepted, inflight, app, call, db>>

\* controllers.Index: c.HTML(http.StatusOK, "layout.html", ...)
IndexLayout ==
    /\ up /\ gpc = "IndexLayout"
    /\ w' = Late(w, JSON(w, StatusOK, "handler"))
    /\ gpc' = "send"
    /\ UNCHANGED <<now, store, jar, up, served, issued, mpc, c, s, win, accepted, inflight, app, call, db>>

\* the other handlers of the gated groups (GetAccounts, ImagePage, GetUser, ...):
\* one response, then return
Record ==
    /\ up /\ gpc = "Record"
    /\ w' = Late(w, JSON(w, StatusOK, "handler"))
    /\ c' = [c EXCEPT !.acts = Append(@, Act("handler", StatusOK, ""))]
    /\ gpc' = "send"
    /\ UNCHANGED <<now, store, jar, up, served, issued, mpc, s, win, accepted, inflight, app, call, db>>

\* health.LivenessHandler
LivenessHandler ==
    /\ up /\ gpc = "LivenessHandler"
    /\ w' = Late(w, JSON(w, StatusOK, "handler"))
    /\ c' = [c EXCEPT !.acts = Append(@, Act("handler", StatusOK, ""))]
    /\ gpc' = "send"
    /\ UNCHANGED <<now, store, jar, up, served, issued, mpc, s, win, accepted, inflight, app, call, db>>

\* a login page that renders the form whoever asks
LoginPageAlwaysForm ==
    /\ up /\ gpc = "LoginPage"
    /\ w' = Late(w, JSON(w, StatusOK, "handler"))
    /\ c' = [c EXCEPT !.acts = Append(@, Act("handler", StatusOK, "login.html"))]
    /\ gpc' = "send"
    /\ UNCHANGED <<now, store, jar, up, served, issued, mpc, s, win, accepted, inflight, app, call, db>>

\* controllers.LoginPage
LoginPage ==
    /\ up /\ gpc = "LoginPage"
    /\ IF IsLoggedIn(s.vals)
       THEN /\ w' = Late(w, Redirect(w, StatusFound, "/", "handler"))
            /\ c' = [c EXCEPT !.acts = Append(@, Act("handler", StatusFound, "/"))]
       ELSE /\ w' = Late(w, JSON(w, StatusOK, "handler"))
            /\ c' = [c EXCEPT !.acts = Append(@, Act("handler", StatusOK, "login.html"))]
    /\ gpc' = "send"
    /\ UNCHANGED <<now, store, jar, up, served, issued, mpc, s, win, accepted, inflight, app, call, db>>

\* controllers.HandleGoogleLogin up to the redirect: generateStateToken, which
\* fails when the random source does, and session.SetStateToken
HandleGoogleLogin ==
    /\ up /\ gpc = "HandleGoogleLogin"
    /\ \/ /\ w' = Late(w, JSON(w, StatusInternalServerError, "handler"))
          /\ c' = [c EXCEPT !.acts = Append(@, Act("handler", StatusInternalServerError, ""))]
          /\ gpc' = "send"
          /\ UNCHANGED <<s, issued>>
       \/ /\ issued < MaxTokens
          /\ issued' = issued + 1
          /\ LET stateToken == issued + 1
                 set == SessionSet(s, "token", stateToken)
             IN IF SaveFails(set)
                THEN /\ s' = set
                     /\ w' = Late(w, JSON(w, StatusInternalServerError, "handler"))
                     /\ c' = [c EXCEPT !.acts = Append(@, Act("handler", StatusInternalServerError, ""))]
                     /\ gpc' = "send"
                ELSE /\ s' = SaveSession(set)
                     /\ w' = SaveWriter(set, w)
                     /\ c' = [c EXCEPT !.state = stateToken]
                     /\ gpc' = "loginRedirect"
    /\ UNCHANGED <<now, store, jar, up, served, mpc, win, accepted, inflight, app, call, db>>

\* a login that builds the provider URL with the token the request came with
loginRedirectOldToken ==
    /\ up /\ gpc = "loginRedirect"
    /\ w' = Late(w, Redirect(w, StatusFound, "provider", "handler"))
    /\ c' = [c EXCEPT !.url = Decode(c.cookie).token,
                      !.acts = Append(@, Act("handler", StatusFound, "provider"))]
    /\ gpc' = "send"
    /\ UNCHANGED <<now, store, jar, up, served, issued, mpc, s, win, accepted, inflight, app, call, db>>

\* controllers.HandleGoogleLogin: c.Redirect(http.StatusFound, AuthCodeURL(stateToken))
loginRedirect ==
    /\ up /\ gpc = "loginRedirect"
    /\ w' = Late(w, Redirect(w, StatusFound, "provider", "handler"))
    /\ c' = [c EXCEPT !.url = c.state,
                      !.acts = Append(@, Act("handler", StatusFound, "provider"))]
    /\ gpc' = "send"
    /\ UNCHANGED <<now, store, jar, up, served, issued, mpc, s, win, accepted, inflight, app, call, db>>

\* a state check that rejects only an empty state
StateRejectedWhenEmpty(receivedState, storedState) == receivedState = 0

\* a state check that only compares, without the two tests for emptiness
StateRejectedOnMismatchOnly(receivedState, storedState) ==
    receivedState # storedState

\* the state check of HandleGoogleCallback
StateRejected(receivedState, storedState) ==
    receivedState = 0 \/ storedState = 0 \/ receivedState # storedState

\* controllers.HandleGoogleCallback: the state check.  The state of the query is
\* empty (0), a token that was issued, or a value nobody issued (-1)
HandleGoogleCallback ==
    /\ up /\ gpc = "HandleGoogleCallback"
    /\ \E receivedState \in (0..issued) \cup {-1} :
         LET storedState == GetStateToken(s.vals)
         IN IF StateRejected(receivedState, storedState)
            THEN /\ w' = Late(w, JSON(w, StatusBadRequest, "handler"))
                 /\ c' = [c EXCEPT !.state = receivedState,
                                   !.acts = Append(@, Act("handler", StatusBadRequest, ""))]
                 /\ gpc' = "send"
                 /\ accepted' = accepted
            ELSE /\ w' = w
                 /\ c' = [c EXCEPT !.state = receivedState]
                 /\ gpc' = "callbackDelete"
                 /\ accepted' = [accepted EXCEPT ![receivedState] = @ + 1]
    /\ UNCHANGED <<now, store, jar, up, served, issued, mpc, s, win, inflight, app, call, db>>

\* controllers.HandleGoogleCallback: session.DeleteStateToken, its error only logged
callbackDelete ==
    /\ up /\ gpc = "callbackDelete"
    /\ LET deleted == SessionDelete(s, "token")
       IN /\ s' = SaveSession(deleted)
          /\ w' = SaveWriter(deleted, w)
    /\ gpc' = "callbackFetch"
    /\ UNCHANGED <<now, store, jar, up, served, issued, mpc, c, win, accepted, inflight, app, call, db>>

\* a profile check that rejects only a profile lacking both ID and Email
ProfileRejectedLackingBoth(profile) == profile.ID = "" /\ profile.Email = ""

\* the profile check of HandleGoogleCallback
ProfileRejected(profile) == profile.ID = "" \/ profile.Email = ""

\* a callback that logs a failed step and goes on without returning
callbackFetchGoesOn ==
    /\ up /\ gpc = "callbackFetch"
    /\ \/ /\ \E failure \in {"code", "exchange", "get", "status", "read", "unmarshal"} :
               c' = [c EXCEPT !.fetch = failure]
          /\ w' = w
          /\ gpc' = "callbackSet"
       \/ \E profile \in Profiles :
            /\ c' = [c EXCEPT !.profile = profile, !.fetch = "profile"]
            /\ w' = w
            /\ gpc' = "callbackSet"
    /\ UNCHANGED <<now, store, jar, up, served, issued, mpc, s, win, accepted, inflight, app, call, db>>

\* controllers.HandleGoogleCallback from the code check to the profile check: a
\* missing code, a failed exchange, a failed or non-200 userinfo request, an
\* unreadable or unparseable body and a rejected profile all redirect to /login
callbackFetch ==
    /\ up /\ gpc = "callbackFetch"
    /\ \/ /\ \E failure \in {"code", "exchange", "get", "status", "read", "unmarshal"} :
               c' = [c EXCEPT !.fetch = failure,
                                 !.acts = Append(@, Act("handler", StatusFound, "/login"))]
          /\ w' = Late(w, Redirect(w, StatusFound, "/login", "handler"))
          /\ gpc' = "send"
       \/ \E profile \in Profiles :
            IF ProfileRejected(profile)
            THEN /\ c' = [c EXCEPT !.profile = profile, !.fetch = "profile",
                                   !.acts = Append(@, Act("handler", StatusFound, "/login"))]
                 /\ w' = Late(w, Redirect(w, StatusFound, "/login", "handler"))
                 /\ gpc' = "send"
            ELSE /\ c' = [c EXCEPT !.profile = profile, !.fetch = "profile"]
                 /\ w' = w
                 /\ gpc' = "callbackSet"
    /\ UNCHANGED <<now, store, jar, up, served, issued, mpc, s, win, accepted, inflight, app, call, db>>

\* a callback that goes on to its redirect without storing the profile
callbackSetSkipped ==
    /\ up /\ gpc = "callbackSet"
    /\ gpc' = "callbackRedirect"
    /\ UNCHANGED <<now, store, jar, up, served, issued, mpc, c, w, s, win, accepted, inflight, app, call, db>>

\* controllers.HandleGoogleCallback: session.SetLoggedInUser(c, &profile); when it
\* fails, the redirect inside the if
callbackSet ==
    /\ up /\ gpc = "callbackSet"
    /\ LET set == SessionSet(s, "user", [set |-> TRUE, ptr |-> TRUE, val |-> c.profile])
       IN IF SaveFails(set)
          THEN /\ s' = set
               /\ w' = Late(w, Redirect(w, StatusFound, "/", "handler"))
               /\ c' = [c EXCEPT !.acts = Append(@, Act("handler", StatusFound, "/"))]
          ELSE /\ s' = SaveSession(set)
               /\ w' = SaveWriter(set, w)
               /\ c' = c
    /\ gpc' = "callbackRedirect"
    /\ UNCHANGED <<now, store, jar, up, served, issued, mpc, win, accepted, inflight, app, call, db>>

\* controllers.HandleGoogleCallback: the final c.Redirect(http.StatusFound, "/")
callbackRedirect ==
    /\ up /\ gpc = "callbackRedirect"
    /\ w' = Late(w, Redirect(w, StatusFound, "/", "handler"))
    /\ c' = [c EXCEPT !.acts = Append(@, Act("handler", StatusFound, "/"))]
    /\ gpc' = "send"
    /\ UNCHANGED <<now, store, jar, up, served, issued, mpc, s, win, accepted, inflight, app, call, db>>

\* a logout that redirects without deleting the logged-in user
LogoutKeepsUser ==
    /\ up /\ gpc = "Logout"
    /\ gpc' = "logoutRedirect"
    /\ UNCHANGED <<now, store, jar, up, served, issued, mpc, c, w, s, win, accepted, inflight, app, call, db>>

\* controllers.Logout: session.DeleteLoggedInUser
Logout ==
    /\ up /\ gpc = "Logout"
    /\ LET deleted == SessionDelete(s, "user")
       IN IF SaveFails(deleted)
          THEN /\ s' = deleted
               /\ w' = Late(w, JSON(w, StatusInternalServerError, "handler"))
               /\ c' = [c EXCEPT !.acts = Append(@, Act("handler", StatusInternalServerError, ""))]
               /\ gpc' = "send"
          ELSE /\ s' = SaveSession(deleted)
               /\ w' = SaveWriter(deleted, w)
               /\ c' = c
               /\ gpc' = "logoutRedirect"
    /\ UNCHANGED <<now, store, jar, up, served, issued, mpc, win, accepted, inflight, app, call, db>>

\* controllers.Logout: c.Redirect(http.StatusFound, "/")
logoutRedirect ==
    /\ up /\ gpc = "logoutRedirect"
    /\ w' = Late(w, Redirect(w, StatusFound, "/", "handler"))
    /\ c' = [c EXCEPT !.acts = Append(@, Act("handler", StatusFound, "/"))]
    /\ gpc' = "send"
    /\ UNCHANGED <<now, store, jar, up, served, issued, mpc, s, win, accepted, inflight, app, call, db>>

(***************************************************************************)
(* The program.                                                            *)
(***************************************************************************)
Next ==
    \/ Tick
    \/ Arrive
    \/ Recovery
    \/ RecoveryHandle
    \/ RequestLogger
    \/ SecurityHeaders
    \/ CORS
    \/ RateLimiter
    \/ RequestTimeout
    \/ TimerFire
    \/ Select
    \/ TimeoutRespond
    \/ TimeoutAbort
    \/ ServeHTTPReturn
    \/ GoNext
    \/ Sessions
    \/ authMiddleware
    \/ gateRedirect
    \/ gatePass
    \/ SendDone
    \/ HandlerPanic
    \/ Index
    \/ IndexLayout
    \/ Record
    \/ LivenessHandler
    \/ LoginPage
    \/ HandleGoogleLogin
    \/ loginRedirect
    \/ HandleGoogleCallback
    \/ callbackDelete
    \/ callbackFetch
    \/ callbackSet
    \/ callbackRedirect
    \/ Logout
    \/ logoutRedirect

Spec == Init /\ [][Next]_vars

(***************************************************************************)
(* Properties.                                                             *)
(***************************************************************************)
Range(seq) == {seq[i] : i \in 1..Len(seq)}

\* what the stage named by has answered on the request, in order
ActsBy(by) == SelectSeq(c.acts, LAMBDA a : a.by = by)

\* the request has been answered completely and no goroutine of it is left
Settled == served > 0 /\ mpc = "idle" /\ gpc = "idle" /\ w.final

\* the request is one to a gated route and the gate has been reached or passed
AtGate == c.route \in Gated /\ gpc # "Sessions"

\* the session cookie of the request holds no logged-in user with an ID
Anonymous == ~Decode(c.cookie).user.set \/ Decode(c.cookie).user.val.ID = ""

HandlerRunning ==
    gpc \in {"Index", "IndexLayout", "Record", "LivenessHandler", "LoginPage",
             "HandleGoogleLogin", "loginRedirect", "HandleGoogleCallback",
             "callbackDelete", "callbackFetch", "callbackSet", "callbackRedirect",
             "Logout", "logoutRedirect"}

\* C1: on a gated route, a request whose session holds no logged-in user with a
\* non-empty ID never gets to the route handler; the gate, once it has run,
\* has answered 302 with Location /login and aborted the chain, and that
\* answer is the response unless the timeout stage had answered before it.
C1_AnonymousIsRedirected ==
    (AtGate /\ Anonymous) =>
        /\ c.calls = 0
        /\ ~HandlerRunning
        /\ c.gate # "pass"
        /\ ~c.user.set
        /\ gpc \in {"send", "idle"} =>
             \/ /\ c.gate = "redirect"
                /\ c.aborted
                /\ ActsBy("gate") = <<Act("gate", StatusFound, "/login")>>
                /\ \/ /\ Head(w.body) = "gate"
                      /\ w.sentStatus = StatusFound
                      /\ w.sentHdr.loc = "/login"
                   \/ c.branch = "timeout"
             \/ /\ c.gate = "none"
                /\ c.aborted
                /\ c.branch = "timeout"

\* C1 witness: an anonymous request to a gated route was answered 302 /login
C1_Witness ==
    /\ Settled /\ AtGate /\ Anonymous
    /\ c.gate = "redirect" /\ c.calls = 0
    /\ w.sentStatus = StatusFound /\ w.sentHdr.loc = "/login"

\* C2 as claimed: once the gate has let a request with a logged-in user through,
\* the user is in the context and the route handler has been invoked exactly once.
C2_Original ==
    (AtGate /\ c.gate = "pass") =>
        /\ c.user = [set |-> TRUE, val |-> Decode(c.cookie).user.val]
        /\ c.calls = 1

\* C2 amended: once the gate has let a request with a logged-in user through, the
\* user is in the context and the route handler has been invoked exactly once,
\* or not at all if the timeout stage has aborted the request; never twice.
C2_PassAttachesUserAndInvokesOnce ==
    /\ (AtGate /\ ~Anonymous /\ gpc \in {"send", "idle"} /\ c.gate = "none") =>
           (c.aborted /\ c.branch = "timeout")
    /\ (AtGate /\ ~Anonymous) => c.gate # "redirect"
    /\ (AtGate /\ c.gate = "pass") =>
        /\ ~Anonymous
        /\ c.user = [set |-> TRUE, val |-> Decode(c.cookie).user.val]
        /\ \/ c.calls = 1
           \/ c.calls = 0 /\ c.aborted /\ c.branch = "timeout"

\* C2 witness: a request with a logged-in user went through the gate to the handler
C2_Witness ==
    /\ Settled /\ AtGate /\ c.gate = "pass" /\ c.calls = 1
    /\ c.user.set /\ c.user.val.ID = "u1"
    /\ w.sentStatus = StatusOK

\* the callback handler has been invoked and has made its state check
StateChecked ==
    c.route = "/auth/callback" /\ c.calls = 1 /\ gpc # "HandleGoogleCallback"

\* the state of the query is empty, the session holds no token, or the two differ
StateMismatch ==
    \/ c.state = 0
    \/ Decode(c.cookie).token = 0
    \/ c.state # Decode(c.cookie).token

\* C3: a callback whose state is empty, whose session holds no state token, or
\* whose state differs from the stored token is answered 400 by the handler and
\* nothing else; the session values are those of the request's cookie, no
\* Set-Cookie header is written and the client's cookie stays as it was.
C3_RejectedCallbackLeavesSession ==
    (StateChecked /\ StateMismatch) =>
        /\ gpc \in {"send", "idle"}
        /\ ActsBy("handler") = <<Act("handler", StatusBadRequest, "")>>
        /\ s = NewSession(c.cookie)
        /\ w.hdr.cookie = NoCookie
        /\ w.sentHdr.cookie = NoCookie
        /\ Settled => jar = c.cookie

\* C3 witness: a callback with a state that differs from the stored token was
\* answered 400
C3_Witness ==
    /\ Settled /\ StateChecked
    /\ Decode(c.cookie).token # 0 /\ c.state # 0 /\ c.state # Decode(c.cookie).token
    /\ w.sentStatus = StatusBadRequest
    /\ jar = c.cookie

\* C4 as claimed: a state token is accepted by at most one callback; every later
\* callback of the same client with that state is rejected.
C4_TokenAcceptedOnce == \A t \in Tokens : accepted[t] <= 1

\* the number of the request among those of its client IP in the current window
InWindow == win[c.ip].n

\* the rate limiter has answered the request itself and stopped the chain
RateLimited ==
    /\ ActsBy("ratelimiter") = <<Act("ratelimiter", StatusTooManyRequests, "")>>
    /\ c.aborted
    /\ c.deadline = "off" /\ c.route = "" /\ c.calls = 0
    /\ w.sentStatus = StatusTooManyRequests
    /\ w.body = <<"ratelimiter">>

\* the rate limiter has handed the request to the next stage
PassedOn ==
    /\ ActsBy("ratelimiter") = << >>
    /\ \/ mpc = "RequestTimeout"
       \/ c.deadline # "off"
       \/ c.panicked = "serving"

\* C5: with limit L the first L requests of a client IP inside one window are
\* handed on, and request L+1 (and any after it) is answered 429 and aborted.
C5_LimitRequestsPerWindow ==
    c.rl.set =>
        /\ InWindow <= RateLimitPerMinute => PassedOn /\ ~c.rl.reached
        /\ InWindow > RateLimitPerMinute => RateLimited /\ c.rl.reached

\* C5 witness: request L+1 of a window was answered 429
C5_Witness ==
    /\ Settled /\ c.rl.set
    /\ InWindow = RateLimitPerMinute + 1
    /\ w.sentStatus = StatusTooManyRequests

\* C6: the remaining value the rate limiter reports for a client IP is
\* max(0, limit - requests counted in the current window), so it is never
\* negative and is one less with every request accepted in the window.
C6_RemainingIsLimitMinusCount ==
    c.rl.set =>
        LET left == RateLimitPerMinute - InWindow
        IN /\ c.rl.remaining = IF left > 0 THEN left ELSE 0
           /\ c.rl.limit = RateLimitPerMinute
           /\ w.hdr.rate.set /\ w.hdr.rate.remaining = c.rl.remaining
           /\ c.rl.remaining >= 0

\* C6 witness: the last request a window allows was reported with remaining 0
\* after the one before it was reported with remaining 1
C6_Witness ==
    /\ Settled /\ c.rl.set /\ ~c.rl.reached
    /\ InWindow = RateLimitPerMinute
    /\ w.sentHdr.rate.remaining = 0

\* C7 as claimed: every response carries the three X-RateLimit headers,
\* whichever stage produced it.
C7_Original == w.written => w.sentHdr.rate.set

\* C7 amended: every response to a request that has reached the rate limiter
\* carries X-RateLimit-Limit, -Remaining and -Reset with the limiter's values for
\* that request, whichever later stage produced it; a response produced by a
\* stage that runs before the rate limiter carries none of them.
C7_HeadersOnceRateLimiterRan ==
    w.written =>
        /\ c.rl.set =>
             w.sentHdr.rate = [set |-> TRUE, limit |-> RateLimitPerMinute,
                               remaining |-> c.rl.remaining, reset |-> c.rl.reset]
        /\ ~c.rl.set => ~w.sentHdr.rate.set

\* C7 witness: a response of the gate, a stage after the rate limiter, went out
\* with the headers
C7_Witness ==
    /\ Settled /\ c.rl.set /\ c.gate = "redirect"
    /\ w.sentStatus = StatusFound
    /\ w.sentHdr.rate.set /\ w.sentHdr.rate.limit = RateLimitPerMinute

\* the serving goroutine has returned from the pipeline of the request
Answered == served > 0 /\ mpc = "idle" /\ w.final

\* C8 as claimed: a request whose chain had not returned when the deadline
\* passed is answered 408 by the timeout stage; a request whose chain returned
\* before the deadline is answered by the chain alone.
C8_TimeoutOr ==
    Answered =>
        /\ c.atDeadline = "running" =>
             w.sentStatus = StatusRequestTimeout /\ Head(w.body) = "timeout"
        /\ (c.deadline # "off" /\ c.atDeadline # "running") =>
             "timeout" \notin Range(w.body)

\* C9 as claimed: once the timeout stage has written its 408, nothing more is
\* added to the response.
C9_NothingAfterTimeout ==
    \A i \in 1..Len(w.body) : w.body[i] = "timeout" => i = Len(w.body)

\* C10 as claimed: a panic in a stage after Recovery or in a route handler is
\* answered 500 by Recovery and the server goes on serving.
C10_PanicIsRecovered ==
    c.panicked # "" =>
        /\ up
        /\ Answered => w.sentStatus = StatusInternalServerError /\ w.body = <<"recovery">>

\* the goroutine started by RequestTimeout is inside the session stage, the gate
\* or a route handler
StageRunning ==
    gpc \in {"Sessions", "authMiddleware", "gateRedirect", "gatePass"} \/ HandlerRunning

\* C11 as claimed: once a stage has aborted a request, no later stage and no
\* route handler executes a step for that request.
C11_NoStepAfterAbort ==
    [][(c.aborted /\ StageRunning) => gpc' = gpc]_vars

\* every stage that has started on the request has all its predecessors behind it
OrderKept ==
    /\ c.origin # "" => w.hdr.sec
    /\ c.rl.set => c.origin \in {"same", "allowed"}
    /\ c.deadline # "off" => c.rl.set /\ ~c.rl.reached
    /\ gpc # "idle" => c.deadline # "off"
    /\ c.route # "" => c.deadline # "off"
    /\ c.gate # "none" => c.route \in Gated
    /\ (HandlerRunning \/ c.calls > 0) =>
           c.route # "" /\ (c.route \in Gated => c.gate = "pass")

\* the serving goroutine is executing code of RequestTimeout or of a stage above it
ServingRunning == mpc \in {"timeout", "timeoutAbort", "return"}

\* C12 as claimed: the stages of a request start in the order of setupRouter and
\* no two stages of one request execute at the same time.
C12_OrderAndNoParallelStages ==
    /\ OrderKept
    /\ ~(ServingRunning /\ StageRunning)

\* the callback handler has fetched a profile with ID and Email, has called
\* SetLoggedInUser with it and has returned
ValidCallback ==
    /\ c.route = "/auth/callback" /\ c.fetch = "profile"
    /\ c.profile.ID # "" /\ c.profile.Email # ""
    /\ gpc \in {"send", "idle"}

\* the cookie the session of the request is saved as
ResultingCookie == Encode(s.vals)

SoftFailure ==
    /\ c.route = "/auth/callback"
    /\ c.fetch \in {"code", "exchange", "get", "status", "read", "unmarshal"}

\* C14: after the state check has passed, a missing code, a failed exchange, a
\* failed userinfo request, a userinfo status other than 200 and an unreadable
\* or unparseable body each end the handler with one 302 to /login; the
\* logged-in user of the session, of the cookie written and of the client's
\* cookie is the one the request came with.
C14_SoftFailureRedirectsToLogin ==
    SoftFailure =>
        /\ gpc \in {"send", "idle"}
        /\ ActsBy("handler") = <<Act("handler", StatusFound, "/login")>>
        /\ s.vals.user = Decode(c.cookie).user
        /\ w.hdr.cookie.set => w.hdr.cookie.vals.user = Decode(c.cookie).user
        /\ Settled => Decode(jar).user = Decode(c.cookie).user

\* C14 witness: a callback whose token exchange failed was answered 302 /login
C14_Witness ==
    /\ Settled /\ SoftFailure /\ c.fetch = "exchange"
    /\ w.sentStatus = StatusFound /\ w.sentHdr.loc = "/login"
    /\ ~IsLoggedIn(Decode(jar))

\* the callback has fetched and parsed a profile that lacks the ID or the Email
IncompleteProfile ==
    /\ c.route = "/auth/callback" /\ c.fetch = "profile"
    /\ c.profile.ID = "" \/ c.profile.Email = ""

\* a stored logged-in user has an ID and an Email
Complete(user) == user.set => user.val.ID # "" /\ user.val.Email # ""

\* C15: a callback whose fetched profile lacks the ID, the Email or both ends
\* with one 302 to /login and stores no logged-in user; every logged-in user in
\* a session, in a cookie written or held by the client, or attached to a
\* request context by the gate has a non-empty ID and a non-empty Email.
C15_OnlyCompleteProfiles ==
    /\ IncompleteProfile =>
        /\ gpc \in {"send", "idle"}
        /\ ActsBy("handler") = <<Act("handler", StatusFound, "/login")>>
        /\ s.vals.user = Decode(c.cookie).user
    /\ Complete(s.vals.user)
    /\ Complete(Decode(jar).user)
    /\ Complete(Decode(c.cookie).user)
    /\ Complete(Decode(w.hdr.cookie).user)
    /\ Complete(Decode(w.sentHdr.cookie).user)
    /\ Complete(c.user)

\* C15 witness: a callback whose profile has an ID and no Email was answered 302
\* /login and the client is not logged in
C15_Witness ==
    /\ Settled /\ IncompleteProfile
    /\ c.profile.ID # "" /\ c.profile.Email = ""
    /\ w.sentStatus = StatusFound /\ w.sentHdr.loc = "/login"
    /\ ~IsLoggedIn(Decode(jar))

\* HandleGoogleLogin has been invoked and has returned
LoginHandled == c.route = "/auth/google" /\ c.calls = 1 /\ gpc \in {"send", "idle"}

\* C16: HandleGoogleLogin has a freshly generated, non-empty state token stored
\* and saved in the session when it redirects, and the state parameter of the
\* redirect URL is that token; when generating or storing the token fails it
\* answers 500, redirects nowhere and writes no cookie.
C16_LoginStoresTokenThenRedirects ==
    /\ (c.route = "/auth/google" /\ gpc = "loginRedirect") =>
        /\ c.state \in Tokens /\ c.state = issued
        /\ s.vals.token = c.state /\ ~s.written
        /\ ActsBy("handler") = << >>
    /\ LoginHandled =>
        \/ /\ ActsBy("handler") = <<Act("handler", StatusFound, "provider")>>
           /\ c.url \in Tokens /\ c.url = issued
           /\ c.url # Decode(c.cookie).token
           /\ s.vals.token = c.url /\ ~s.written
           /\ w.hdr.cookie = Encode(s.vals) \/ w.final
        \/ /\ ActsBy("handler") = <<Act("handler", StatusInternalServerError, "")>>
           /\ c.url = 0
           /\ w.hdr.cookie = NoCookie
           /\ s = NewSession(c.cookie) \/ (s.written /\ ~Encodable(s.vals))

\* C16 witness: a login was answered with the redirect to the provider and the
\* client holds the cookie with the token of the URL
C16_Witness ==
    /\ Settled /\ LoginHandled /\ c.url \in Tokens
    /\ w.sentStatus = StatusFound /\ w.sentHdr.loc = "provider"
    /\ Decode(jar).token = c.url

\* SetLoggedInUser(c, &profile) has succeeded on the context of the request
AfterSetLoggedInUser ==
    /\ c.route = "/auth/callback" /\ c.fetch = "profile"
    /\ c.profile.ID # "" /\ c.profile.Email # ""
    /\ gpc \in {"callbackRedirect", "send", "idle"}
    /\ ~s.written

\* DeleteLoggedInUser(c) has succeeded on the context of the request
AfterDeleteLoggedInUser ==
    /\ c.route = "/logout" /\ c.calls = 1
    /\ gpc \in {"logoutRedirect", "send", "idle"}
    /\ ~s.written

\* C17 as claimed: on the context on which SetLoggedInUser(u) has succeeded,
\* IsLoggedIn is true and GetLoggedInUser returns u; on the context on which
\* DeleteLoggedInUser has succeeded, IsLoggedIn is false and GetLoggedInUser
\* returns the empty user.
C17_AccessorsAfterSetAndDelete ==
    /\ AfterSetLoggedInUser =>
        /\ ~GetLoggedInUserPanics(s.vals)
        /\ IsLoggedIn(s.vals)
        /\ GetLoggedInUser(s.vals) = c.profile
    /\ AfterDeleteLoggedInUser =>
        /\ ~GetLoggedInUserPanics(s.vals)
        /\ ~IsLoggedIn(s.vals)
        /\ GetLoggedInUser(s.vals) = EmptyUser

\* Logout has been invoked and has returned
LogoutHandled == c.route = "/logout" /\ c.calls = 1 /\ gpc \in {"send", "idle"}

LoginPageWhileLoggedIn ==
    /\ c.route = "/login" /\ c.calls = 1 /\ gpc \in {"send", "idle"}
    /\ ~Anonymous

\* C19: GET /login with a session that holds a logged-in user is answered by the
\* handler with one 302 to "/" and never with the login form; the session is the
\* one the request came with, no cookie is written and the client's cookie stays
\* as it was, so that a repetition meets the same state.
C19_LoginPageRedirectsLoggedIn ==
    LoginPageWhileLoggedIn =>
        /\ ActsBy("handler") = <<Act("handler", StatusFound, "/")>>
        /\ s = NewSession(c.cookie)
        /\ w.hdr.cookie = NoCookie /\ w.sentHdr.cookie = NoCookie
        /\ Settled => jar = c.cookie

\* C19 witness: a logged-in client asked for /login and was answered 302 to "/"
C19_Witness ==
    /\ Settled /\ LoginPageWhileLoggedIn
    /\ w.sentStatus = StatusFound /\ w.sentHdr.loc = "/"
    /\ jar = c.cookie

(***************************************************************************)
(* Requests served at the same time.  net/http serves every connection on  *)
(* its own goroutine, so the handler that RateLimiter returns runs for     *)
(* several requests at once; they share the one limiter and memory store   *)
(* made when the middleware is built.  rateLimiter.Get is one step: the    *)
(* memory store increments a counter under its lock.  The steps of         *)
(* different requests interleave freely; all fall inside one window.       *)
(***************************************************************************)
Concurrent == 1..MaxConcurrent

RateInit ==
    /\ now = 0
    /\ store = [ip \in IPs |-> NoCounter]
    /\ jar = NoCookie
    /\ up = TRUE
    /\ served = 0
    /\ issued = 0
    /\ mpc = "idle"
    /\ gpc = "idle"
    /\ c = NewContext(NoCookie)
    /\ w = [NewWriter EXCEPT !.final = TRUE]
    /\ s = NoSession
    /\ win = [ip \in IPs |-> [start |-> -1, n |-> 0]]
    /\ accepted = [t \in Tokens |-> 0]
    /\ inflight = [r \in Concurrent |->
                     [pc |-> "Get", key |-> "", rl |-> NoLimiterContext, w |-> NewWriter]]
    /\ app = Running
    /\ call = NoCall
    /\ db = EmptyDB

\* a handler that makes its own store instead of sharing the middleware's
ConcurrentGetOwnStore(r) ==
    /\ inflight[r].pc = "Get"
    /\ \E key \in IPs :
         LET counter == Increment(NoCounter, now)
         IN /\ win' = [win EXCEPT ![key] = Window(@, now)]
            /\ inflight' = [inflight EXCEPT ![r].pc = "Header", ![r].key = key,
                              ![r].rl = GetContextFromState(counter, RateLimitPerMinute) @@ [set |-> TRUE]]
    /\ UNCHANGED <<now, store, jar, up, served, issued, mpc, gpc, c, w, s, accepted, app, call, db>>

\* middleware.RateLimiter: key := c.ClientIP(); rateLimiter.Get(ctx, key)
ConcurrentGet(r) ==
    /\ inflight[r].pc = "Get"
    /\ \E key \in IPs :
         LET counter == Increment(store[key], now)
         IN /\ store' = [store EXCEPT ![key] = counter]
            /\ win' = [win EXCEPT ![key] = Window(@, now)]
            /\ inflight' = [inflight EXCEPT ![r].pc = "Header", ![r].key = key,
                              ![r].rl = GetContextFromState(counter, RateLimitPerMinute) @@ [set |-> TRUE]]
    /\ UNCHANGED <<now, jar, up, served, issued, mpc, gpc, c, w, s, accepted, app, call, db>>

\* middleware.RateLimiter: the three c.Header calls
ConcurrentHeaders(r) ==
    /\ inflight[r].pc = "Header"
    /\ inflight' = [inflight EXCEPT ![r].pc = "Reached",
                                    ![r].w = RateHeaders(@, inflight[r].rl)]
    /\ UNCHANGED <<now, store, jar, up, served, issued, mpc, gpc, c, w, s, win, accepted, app, call, db>>

\* middleware.RateLimiter: if limiterContext.Reached { 429, Abort, return }; c.Next()
ConcurrentReached(r) ==
    /\ inflight[r].pc = "Reached"
    /\ inflight' = IF inflight[r].rl.reached
                   THEN [inflight EXCEPT ![r].pc = "aborted",
                           ![r].w = JSON(@, StatusTooManyRequests, "ratelimiter")]
                   ELSE [inflight EXCEPT ![r].pc = "Next"]
    /\ UNCHANGED <<now, store, jar, up, served, issued, mpc, gpc, c, w, s, win, accepted, app, call, db>>

RateNext ==
    \E r \in Concurrent :
        \/ ConcurrentGet(r)
        \/ ConcurrentHeaders(r)
        \/ ConcurrentReached(r)

RateSpec == RateInit /\ [][RateNext]_vars

\* the requests of a client IP that rateLimiter.Get has counted
Counted(key) == {r \in Concurrent : inflight[r].pc # "Get" /\ inflight[r].key = key}

\* those of them that are within the limit
Allowed(key) == {r \in Counted(key) : ~inflight[r].rl.reached}

ConfigInit ==
    /\ now = 0
    /\ store = [ip \in IPs |-> NoCounter]
    /\ jar = NoCookie
    /\ up = FALSE
    /\ served = 0
    /\ issued = 0
    /\ mpc = "idle"
    /\ gpc = "idle"
    /\ c = NewContext(NoCookie)
    /\ w = [NewWriter EXCEPT !.final = TRUE]
    /\ s = NoSession
    /\ win = [ip \in IPs |-> [start |-> -1, n |-> 0]]
    /\ accepted = [t \in Tokens |-> 0]
    /\ inflight = << >>
    /\ \E secret \in 0..MaxSecretLen, id, idSecret \in BOOLEAN :
         app = [env |-> [SECRET |-> secret, GOOGLE_CLIENT_ID |-> id,
                         GOOGLE_CLIENT_SECRET |-> idSecret],
                config |-> [err |-> FALSE, secret |-> 0], state |-> "new"]
    /\ call = NoCall
    /\ db = EmptyDB

\* App.Initialize as far as the configuration decides it, and main's log.Fatal
Initialize ==
    /\ app.state = "new"
    /\ LET config == Load(app.env)
       IN /\ app' = [app EXCEPT !.config = config,
                                !.state = IF config.err THEN "exited" ELSE "running"]
          /\ up' = ~config.err
    /\ UNCHANGED <<now, store, jar, served, issued, mpc, gpc, c, w, s, win, accepted, inflight, call, db>>

\* App.Run: the server listens
Run ==
    /\ app.state = "running" /\ up /\ served = 0
    /\ served' = 1
    /\ UNCHANGED <<now, store, jar, up, issued, mpc, gpc, c, w, s, win, accepted, inflight, app, call, db>>

ConfigNext == Initialize \/ Run

ConfigSpec == ConfigInit /\ [][ConfigNext]_vars

FlashInit ==
    /\ now = 0
    /\ store = [ip \in IPs |-> NoCounter]
    /\ \E user \in {p \in Profiles : p.ID # "" /\ p.Email # "" /\ p.Picture = "pic"} :
         jar \in {NoCookie,
                  Encode([EmptyValues EXCEPT !.user = [set |-> TRUE, ptr |-> FALSE, val |-> user]])}
    /\ up = TRUE
    /\ served = 1
    /\ issued = 0
    /\ mpc = "idle"
    /\ gpc = "handler"
    /\ c = NewContext(jar)
    /\ w = NewWriter
    /\ s = NewSession(jar)
    /\ win = [ip \in IPs |-> [start |-> -1, n |-> 0]]
    /\ accepted = [t \in Tokens |-> 0]
    /\ inflight = << >>
    /\ app = Running
    /\ call = NoCall
    /\ db = EmptyDB

\* SetFlashError, SetFlashSuccess, SetFlashWarning, SetFlashInfo: s.Set(key,
\* message); return s.Save()
SetFlash(key, message) ==
    /\ gpc = "handler" /\ call.n < MaxCalls
    /\ LET set == SessionSet(s, key, message)
       IN /\ s' = SaveSession(set)
          /\ w' = SaveWriter(set, w)
          /\ call' = [n |-> call.n + 1, fn |-> "SetFlash", key |-> key, ret |-> "",
                      err |-> SaveFails(set),
                      pending |-> [call.pending EXCEPT
                                     ![key] = IF SaveFails(set) THEN "?" ELSE message]]
    /\ UNCHANGED <<now, store, jar, up, served, issued, mpc, gpc, c, win, accepted, inflight, app, db>>

\* GetFlashError, GetFlashSuccess, GetFlashWarning, GetFlashInfo: a message
\* that is there is deleted and returned, and the error of s.Save() is dropped
GetFlash(key) ==
    /\ gpc = "handler" /\ call.n < MaxCalls
    /\ LET message == s.vals[key]
           deleted == SessionDelete(s, key)
       IN /\ s' = IF message # nil THEN SaveSession(deleted) ELSE s
          /\ w' = IF message # nil THEN SaveWriter(deleted, w) ELSE w
          /\ call' = [n |-> call.n + 1, fn |-> "GetFlash", key |-> key,
                      ret |-> IF message # nil THEN message ELSE "",
                      err |-> FALSE,
                      pending |-> [call.pending EXCEPT ![key] = nil]]
    /\ UNCHANGED <<now, store, jar, up, served, issued, mpc, gpc, c, win, accepted, inflight, app, db>>

\* the handler returns, the response is sent, and the client's next request
\* arrives with the cookie it holds then
NextRequest ==
    /\ gpc = "handler" /\ served < MaxRequests
    /\ LET sent == WriteHeaderNow(w).sentHdr.cookie
       IN /\ jar' = IF sent.set THEN sent ELSE jar
          /\ c' = NewContext(jar')
          /\ s' = NewSession(jar')
    /\ w' = NewWriter
    /\ served' = served + 1
    /\ UNCHANGED <<now, store, up, issued, mpc, gpc, win, accepted, inflight, app, call, db>>

FlashNext ==
    \/ \E key \in FlashKeys, message \in Messages : SetFlash(key, message)
    \/ \E key \in FlashKeys : GetFlash(key)
    \/ NextRequest

FlashSpec == FlashInit /\ [][FlashNext]_vars

\* C22: a GetFlash of a kind returns the message of the last SetFlash of that
\* kind that no GetFlash has returned yet, and the empty string when there is
\* none; it leaves the other kinds, the logged-in user and the state token of
\* the session as they were.
C22_FlashReadAndClear ==
    [][(call'.n # call.n /\ call'.fn = "GetFlash") =>
          /\ call.pending[call'.key] # "?" =>
                call'.ret = IF call.pending[call'.key] = nil
                            THEN "" ELSE call.pending[call'.key]
          /\ \A other \in FlashKeys \ {call'.key} : s'.vals[other] = s.vals[other]
          /\ s'.vals.user = s.vals.user
          /\ s'.vals.token = s.vals.token]_vars

(***************************************************************************)
(* Strings of a form, as sequences of characters.                          *)
(***************************************************************************)
RECURSIVE TrimLeft(_)
TrimLeft(str) ==
    IF str # << >> /\ Head(str) = " " THEN TrimLeft(Tail(str)) ELSE str

RECURSIVE TrimRight(_)
TrimRight(str) ==
    IF str # << >> /\ str[Len(str)] = " "
    THEN TrimRight(SubSeq(str, 1, Len(str) - 1))
    ELSE str

\* strings.TrimSpace
TrimSpace(str) == TrimRight(TrimLeft(str))

\* strings.Contains(str, ch) for a one-character ch
Contains(str, ch) == \E i \in 1..Len(str) : str[i] = ch

Digits == {"0", "1", "2", "3", "4", "5", "6", "7", "8", "9"}

DigitValue ==
    ("0" :> 0) @@ ("1" :> 1) @@ ("2" :> 2) @@ ("3" :> 3) @@ ("4" :> 4) @@
    ("5" :> 5) @@ ("6" :> 6) @@ ("7" :> 7) @@ ("8" :> 8) @@ ("9" :> 9)

AllDigits(str) == \A i \in 1..Len(str) : str[i] \in Digits

RECURSIVE Decimal(_)
Decimal(str) ==
    IF str = << >> THEN 0
    ELSE 10 * Decimal(SubSeq(str, 1, Len(str) - 1)) + DigitValue[str[Len(str)]]

\* strconv.ParseUint(str, 10, 64) of a string of at most nine characters
ParseUint(str) ==
    IF str # << >> /\ AllDigits(str)
    THEN [err |-> FALSE, val |-> Decimal(str)]
    ELSE [err |-> TRUE, val |-> 0]

\* the float64 0
Zero == [neg |-> FALSE, whole |-> 0, frac |-> 0]

\* strconv.ParseFloat(str, 64) of a string made of a sign, digits and a point
\* with at most two digits after it: the sign, the whole part and the hundredths
ParseFloat(str) ==
    LET neg == str # << >> /\ Head(str) = "-"
        unsigned == IF str # << >> /\ Head(str) \in {"-", "+"} THEN Tail(str) ELSE str
        point == IF Contains(unsigned, ".")
                 THEN CHOOSE i \in 1..Len(unsigned) :
                        unsigned[i] = "." /\ \A j \in 1..(i - 1) : unsigned[j] # "."
                 ELSE Len(unsigned) + 1
        whole == SubSeq(unsigned, 1, point - 1)
        frac == SubSeq(unsigned, point + 1, Len(unsigned))
    IN IF /\ AllDigits(whole) /\ AllDigits(frac)
          /\ Len(whole) + Len(frac) > 0
          /\ Len(frac) <= 2
       THEN [err |-> FALSE,
             val |-> [neg |-> neg, whole |-> Decimal(whole),
                      frac |-> IF Len(frac) = 1 THEN 10 * Decimal(frac) ELSE Decimal(frac)]]
       ELSE [err |-> TRUE, val |-> Zero]

\* maxBalanceValue = 999999999.99
maxBalanceValue == [neg |-> FALSE, whole |-> 999999999, frac |-> 99]

\* balance < 0
Negative(balance) == balance.neg /\ (balance.whole > 0 \/ balance.frac > 0)

\* balance > maxBalanceValue
Exceeds(balance) ==
    /\ ~balance.neg
    /\ \/ balance.whole > maxBalanceValue.whole
       \/ balance.whole = maxBalanceValue.whole /\ balance.frac > maxBalanceValue.frac

(***************************************************************************)
(* Input validation functions of the controllers: the error, "" for nil.   *)
(***************************************************************************)
validateName(name) ==
    LET trimmed == TrimSpace(name)
    IN CASE Len(trimmed) = 0 -> "name is required"
         [] Len(trimmed) > maxNameLength -> "name must be less than 100 characters"
         [] OTHER -> ""

validateEmail(email) ==
    LET trimmed == TrimSpace(email)
    IN CASE Len(trimmed) = 0 -> "email is required"
         [] Len(trimmed) > maxEmailLength -> "email must be less than 255 characters"
         [] ~Contains(trimmed, "@") \/ ~Contains(trimmed, ".") -> "invalid email format"
         [] OTHER -> ""

validatePhone(phone) ==
    LET trimmed == TrimSpace(phone)
    IN CASE Len(trimmed) = 0 -> "phone is required"
         [] Len(trimmed) > maxPhoneLength -> "phone must be less than 20 characters"
         [] OTHER -> ""

validateBalance(balance) ==
    CASE Negative(balance) -> "balance cannot be negative"
      [] Exceeds(balance) -> "balance cannot exceed 999999999.99"
      [] OTHER -> ""

(***************************************************************************)
(* The record handlers, each called with the form of one request on a      *)
(* fresh context and writer, as the routes of the gated groups call them   *)
(* once the gate has let the request pass.                                 *)
(***************************************************************************)
Names == {<< >>, <<" ">>, <<"A", "n", "n", " ">>, [i \in 1..(maxNameLength + 1) |-> "x"]}

Emails == {<< >>, <<"a", "@", "b", ".", "c">>, <<"a", "n", "n">>}

Phones == {<< >>, <<"5", "5", "5">>}

\* what newAccountNumber may return
AccountNumbers == MinAccountNumber..(MinAccountNumber + MaxUsers - 1)

UserIDForms == {<<"x">>, <<"1", "0", "0", "0", "0">>, <<"1", "0", "0", "0", "1">>}

BalanceForms ==
    { << >>, <<"x">>, <<"-", "5", ".", "0", "0">>, <<"0">>, <<"5", "0", "0", ".", "7", "5">>,
      <<"9", "9", "9", "9", "9", "9", "9", "9", "9", ".", "9", "9">>,
      <<"1", "0", "0", "0", "0", "0", "0", "0", "0", "0", ".", "0", "0">> }

IDForms == {<<"x">>, <<"0">>, <<"1">>, <<"2">>}

StoreInit ==
    /\ now = 0
    /\ store = [ip \in IPs |-> NoCounter]
    /\ jar = NoCookie
    /\ up = TRUE
    /\ served = 0
    /\ issued = 0
    /\ mpc = "idle"
    /\ gpc = "idle"
    /\ c = NewContext(NoCookie)
    /\ w = NewWriter
    /\ s = NoSession
    /\ win = [ip \in IPs |-> [start |-> -1, n |-> 0]]
    /\ accepted = [t \in Tokens |-> 0]
    /\ inflight = << >>
    /\ app = Running
    /\ call = NoCall
    /\ db = EmptyDB

\* the request a handler is called with, and the response it has written
Handled(route, form, response) ==
    /\ served < MaxRequests
    /\ served' = served + 1
    /\ c' = [NewContext(NoCookie) EXCEPT
               !.route = route, !.form = form,
               !.acts = <<Act("handler", response.status, response.hdr.loc)>>]
    /\ w' = response
    /\ UNCHANGED <<now, store, jar, up, issued, mpc, gpc, s, win, accepted, inflight, app, call>>

\* CreateUser: the three fields are trimmed and validated, then db.Create
CreateUser ==
    \E name \in Names, email \in Emails, phone \in Phones,
       id \in AccountNumbers, failed \in BOOLEAN :
      LET form == [NoForm EXCEPT !.name = name, !.email = email, !.phone = phone]
          user == [ID |-> id, Name |-> TrimSpace(name), Email |-> TrimSpace(email),
                   Phone |-> TrimSpace(phone)]
          invalid == \/ validateName(user.Name) # ""
                     \/ validateEmail(user.Email) # ""
                     \/ validatePhone(user.Phone) # ""
          duplicate == \E u \in db.users : u.ID = user.ID \/ u.Email = user.Email
      IN CASE invalid ->
                /\ Handled("/users", form, JSON(NewWriter, StatusBadRequest, "handler"))
                /\ ~failed /\ db' = db
           [] ~invalid /\ duplicate ->
                /\ Handled("/users", form, JSON(NewWriter, StatusConflict, "handler"))
                /\ ~failed /\ db' = db
           [] ~invalid /\ ~duplicate /\ failed ->
                /\ Handled("/users", form,
                           JSON(NewWriter, StatusInternalServerError, "handler"))
                /\ db' = db
           [] OTHER ->
                /\ Handled("/users", form, Redirect(NewWriter, StatusFound, "/", "handler"))
                /\ db' = [db EXCEPT !.users = @ \cup {user}]

\* CreateAccount: user-id and balance are parsed, then db.Create; the store
\* refuses an account of a user it does not hold and an id it holds already
CreateAccount ==
    \E userid \in UserIDForms, balance \in BalanceForms :
      LET form == [NoForm EXCEPT !.userid = userid, !.balance = balance,
                                 !.name = <<"a">>]
          parsedID == ParseUint(userid)
          parsed == IF balance = << >> THEN [err |-> FALSE, val |-> Zero]
                    ELSE ParseFloat(balance)
          id == db.seq + 1
          refused == \/ parsedID.val \notin {u.ID : u \in db.users}
                     \/ id \in {a.ID : a \in db.accounts}
      IN CASE parsedID.err \/ parsed.err ->
                /\ Handled("/accounts", form, JSON(NewWriter, StatusBadRequest, "handler"))
                /\ db' = db
           [] OTHER ->
                IF refused
                THEN /\ Handled("/accounts", form,
                                JSON(NewWriter, StatusInternalServerError, "handler"))
                     /\ db' = [db EXCEPT !.seq = id]
                ELSE /\ Handled("/accounts", form,
                                Redirect(NewWriter, StatusFound, "/accounts", "handler"))
                     /\ db' = [db EXCEPT !.seq = id,
                                 !.accounts = @ \cup {[ID |-> id, UserID |-> parsedID.val,
                                                       Balance |-> parsed.val]}]

\* UpdateAccount: the id of the path, user-id and balance are parsed, then
\* db.Save, which updates the account of that id or inserts it
UpdateAccount ==
    \E pathID \in IDForms, userid \in UserIDForms, balance \in BalanceForms :
      LET form == [NoForm EXCEPT !.id = pathID, !.userid = userid, !.balance = balance,
                                 !.name = <<"a">>]
          accountID == ParseUint(pathID)
          parsedID == ParseUint(userid)
          parsed == ParseFloat(balance)
          refused == parsedID.val \notin {u.ID : u \in db.users}
      IN CASE accountID.err \/ accountID.val = 0 \/ parsedID.err \/ parsed.err ->
                /\ Handled("/accounts/update/:id", form,
                           JSON(NewWriter, StatusBadRequest, "handler"))
                /\ db' = db
           [] OTHER ->
                IF refused
                THEN /\ Handled("/accounts/update/:id", form,
                                JSON(NewWriter, StatusInternalServerError, "handler"))
                     /\ db' = db
                ELSE /\ Handled("/accounts/update/:id", form,
                                Redirect(NewWriter, StatusFound, "/accounts", "handler"))
                     /\ db' = [db EXCEPT
                                 !.accounts = {a \in @ : a.ID # accountID.val} \cup
                                              {[ID |-> accountID.val, UserID |-> parsedID.val,
                                                Balance |-> parsed.val]}]

StoreNext == CreateUser \/ CreateAccount \/ UpdateAccount

StoreSpec == StoreInit /\ [][StoreNext]_vars

\* the balance the form of a CreateAccount or UpdateAccount request carries
FormBalance(context) ==
    IF context.form.balance = << >> THEN [err |-> FALSE, val |-> Zero]
    ELSE ParseFloat(context.form.balance)

\* C23: every account the record store holds has a balance that is not negative
\* and not above 999999999.99, and a CreateAccount or UpdateAccount request whose
\* balance is outside that range is not answered with the redirect and leaves
\* the record store as it was.
C23_BalanceWithinRange ==
    [][/\ \A a \in db'.accounts : ~Negative(a.Balance) /\ ~Exceeds(a.Balance)
       /\ (/\ c'.route \in {"/accounts", "/accounts/update/:id"}
           /\ ~FormBalance(c').err
           /\ Negative(FormBalance(c').val) \/ Exceeds(FormBalance(c').val)) =>
              /\ w'.status # StatusFound
              /\ db'.accounts = db.accounts]_vars

\* C24: a CreateUser request whose form has a name and neither email nor phone
\* is answered with the 302 redirect.
C24_MissingFieldsStillRedirect ==
    (/\ c.route = "/users"
     /\ TrimSpace(c.form.name) # << >> /\ Len(TrimSpace(c.form.name)) <= maxNameLength
     /\ c.form.email = << >> /\ c.form.phone = << >>) =>
        w.status = StatusFound

(***************************************************************************)
(* Where a logged-in user comes from.                                      *)
(***************************************************************************)
\* the request is a callback whose state is the token its session held and
\* whose fetched profile has an ID and an Email
MatchedAndValidated ==
    /\ c.route = "/auth/callback"
    /\ c.state # 0 /\ c.state = GetStateToken(Decode(c.cookie))
    /\ c.fetch = "profile" /\ c.profile.ID # "" /\ c.profile.Email # ""

\* C25: the session of a request comes to hold a logged-in user only by being
\* opened from a cookie that holds one or in the SetLoggedInUser of a callback
\* whose state matched the token of its session and whose profile passed the
\* check, and then the user is that profile; the client's cookie comes to hold a
\* logged-in user only through the response of such a callback.
C25_LoginOnlyThroughCallback ==
    [][/\ (IsLoggedIn(s'.vals) /\ ~IsLoggedIn(s.vals)) =>
             \/ gpc = "Sessions" /\ s'.vals = Decode(c.cookie)
             \/ /\ gpc = "callbackSet" /\ MatchedAndValidated
                /\ s'.vals.user.val = c.profile
       /\ (IsLoggedIn(Decode(jar')) /\ ~IsLoggedIn(Decode(jar))) =>
             /\ MatchedAndValidated
             /\ Decode(jar').user.val = c.profile]_vars

\* C25 witness: the response of a callback has turned the client's anonymous
\* cookie into one that holds the fetched profile
C25_Witness ==
    /\ Settled /\ MatchedAndValidated
    /\ ~IsLoggedIn(Decode(c.cookie))
    /\ IsLoggedIn(Decode(jar)) /\ Decode(jar).user.val = c.profile

(***************************************************************************)
(* Callbacks that present the same cookie.  The session store is the       *)
(* cookie store of setupRouter: a request's session is what its cookie     *)
(* decodes to, and the server keeps nothing between requests.  Each of the *)
(* requests has its own context, session and writer; their steps           *)
(* interleave, which covers one after the other as well as both at once.   *)
(***************************************************************************)
Replays == 1..MaxReplays

ReplayInit ==
    /\ now = 0
    /\ store = [ip \in IPs |-> NoCounter]
    /\ \E token \in Tokens : jar = Encode([EmptyValues EXCEPT !.token = token])
    /\ up = TRUE
    /\ served = 0
    /\ issued = MaxTokens
    /\ mpc = "idle"
    /\ gpc = "idle"
    /\ c = NewContext(NoCookie)
    /\ w = NewWriter
    /\ s = NoSession
    /\ win = [ip \in IPs |-> [start |-> -1, n |-> 0]]
    /\ accepted = [t \in Tokens |-> 0]
    /\ inflight = [r \in Replays |->
                     [pc |-> "Sessions", cookie |-> jar, state |-> 0, passed |-> FALSE,
                      s |-> NoSession, w |-> NewWriter]]
    /\ app = Running
    /\ call = NoCall
    /\ db = EmptyDB

\* sessions.Sessions: the session of the request is opened from its cookie
ReplaySessions(r) ==
    /\ inflight[r].pc = "Sessions"
    /\ inflight' = [inflight EXCEPT ![r].s = NewSession(inflight[r].cookie),
                                    ![r].pc = "HandleGoogleCallback"]
    /\ served' = served + 1
    /\ UNCHANGED <<now, store, jar, up, issued, mpc, gpc, c, w, s, win, accepted, app, call, db>>

\* HandleGoogleCallback: the state check against the token of the request's session
ReplayStateCheck(r) ==
    /\ inflight[r].pc = "HandleGoogleCallback"
    /\ \E receivedState \in (0..issued) \cup {-1} :
         IF StateRejected(receivedState, GetStateToken(inflight[r].s.vals))
         THEN /\ inflight' = [inflight EXCEPT
                                ![r].state = receivedState,
                                ![r].w = JSON(@, StatusBadRequest, "handler"),
                                ![r].pc = "return"]
              /\ accepted' = accepted
         ELSE /\ inflight' = [inflight EXCEPT ![r].state = receivedState,
                                              ![r].passed = TRUE,
                                              ![r].pc = "callbackDelete"]
              /\ accepted' = [accepted EXCEPT ![receivedState] = @ + 1]
    /\ UNCHANGED <<now, store, jar, up, served, issued, mpc, gpc, c, w, s, win, app, call, db>>

\* HandleGoogleCallback: session.DeleteStateToken on the request's session, and
\* the rest of the handler, which ends in a redirect
ReplayDelete(r) ==
    /\ inflight[r].pc = "callbackDelete"
    /\ LET deleted == SessionDelete(inflight[r].s, "token")
       IN inflight' = [inflight EXCEPT
                         ![r].s = SaveSession(deleted),
                         ![r].w = Redirect(SaveWriter(deleted, @), StatusFound,
                                           "/login", "handler"),
                         ![r].pc = "return"]
    /\ UNCHANGED <<now, store, jar, up, served, issued, mpc, gpc, c, w, s, win, accepted, app, call, db>>

\* the response of the request reaches the client
ReplayReturn(r) ==
    /\ inflight[r].pc = "return"
    /\ inflight' = [inflight EXCEPT ![r].w = [@ EXCEPT !.final = TRUE], ![r].pc = "idle"]
    /\ jar' = IF inflight[r].w.sentHdr.cookie.set THEN inflight[r].w.sentHdr.cookie ELSE jar
    /\ UNCHANGED <<now, store, up, served, issued, mpc, gpc, c, w, s, win, accepted, app, call, db>>

ReplayNext ==
    \E r \in Replays :
        \/ ReplaySessions(r)
        \/ ReplayStateCheck(r)
        \/ ReplayDelete(r)
        \/ ReplayReturn(r)

ReplaySpec == ReplayInit /\ [][ReplayNext]_vars

\* C26: of the callback requests that present the same cookie and the same
\* state, at most one passes the state check.
C26_ReplayPassesOnce ==
    \A r1, r2 \in Replays :
        (/\ r1 # r2
         /\ inflight[r1].cookie = inflight[r2].cookie
         /\ inflight[r1].state = inflight[r2].state
         /\ inflight[r1].passed) => ~inflight[r2].passed

(***************************************************************************)
(* The rate limiter over several windows.  The steps of RateSpec, with the  *)
(* clock advancing and with clients that send a request again after their  *)
(* request was answered.  refused and before tell how the request the      *)
(* client sent before this one was answered, and for which client IP.      *)
(***************************************************************************)
Clients == 1..MaxClients

WindowInit ==
    /\ now = 0
    /\ store = [ip \in IPs |-> NoCounter]
    /\ jar = NoCookie
    /\ up = TRUE
    /\ served = 0
    /\ issued = 0
    /\ mpc = "idle"
    /\ gpc = "idle"
    /\ c = NewContext(NoCookie)
    /\ w = [NewWriter EXCEPT !.final = TRUE]
    /\ s = NoSession
    /\ win = [ip \in IPs |-> [start |-> -1, n |-> 0]]
    /\ accepted = [t \in Tokens |-> 0]
    /\ inflight = [r \in Clients |->
                     [pc |-> "Get", key |-> "", rl |-> NoLimiterContext, w |-> NewWriter,
                      refused |-> FALSE, before |-> ""]]
    /\ app = Running
    /\ call = NoCall
    /\ db = EmptyDB

\* the client whose request was answered sends its next request
ConcurrentAgain(r) ==
    /\ inflight[r].pc \in {"aborted", "Next"}
    /\ served < MaxAgain
    /\ served' = served + 1
    /\ inflight' = [inflight EXCEPT
                      ![r] = [pc |-> "Get", key |-> "", rl |-> NoLimiterContext,
                              w |-> NewWriter,
                              refused |-> inflight[r].pc = "aborted",
                              before |-> inflight[r].key]]
    /\ UNCHANGED <<now, store, jar, up, issued, mpc, gpc, c, w, s, win, accepted, app, call, db>>

WindowNext ==
    \/ Tick
    \/ \E r \in Clients :
        \/ ConcurrentGet(r)
        \/ ConcurrentHeaders(r)
        \/ ConcurrentReached(r)
        \/ ConcurrentAgain(r)

WindowSpec == WindowInit /\ [][WindowNext]_vars

\* rateLimiter.Get counts request r in this step
Counts(r) == inflight[r].pc = "Get" /\ inflight'[r].pc = "Header"

C28_LatestTokenOnly ==
    (StateChecked /\ c.state # issued) =>
        /\ gpc \in {"send", "idle"}
        /\ ActsBy("handler") = <<Act("handler", StatusBadRequest, "")>>

(***************************************************************************)
(* The end of HandleGoogleCallback, and the goroutine of RequestTimeout.   *)
(***************************************************************************)
\* HandleGoogleCallback has been invoked and has returned
CallbackHandled == c.route = "/auth/callback" /\ c.calls = 1 /\ gpc \in {"send", "idle"}

\* C29: HandleGoogleCallback writes exactly one response on every path, and the
\* response is the redirect to "/" only when SetLoggedInUser has stored the
\* profile and saved the session.
C29_OneResponseHomeOnSuccess ==
    CallbackHandled =>
        /\ Len(ActsBy("handler")) = 1
        /\ ActsBy("handler")[1] = Act("handler", StatusFound, "/") =>
              /\ s.vals.user = [set |-> TRUE, ptr |-> TRUE, val |-> c.profile]
              /\ ~s.written

\* C30: when the goroutine started by RequestTimeout has come back from the
\* chain and is at its send, the done channel has room, whether the serving
\* goroutine has not reached the select yet, is parked in it, or has taken the
\* timeout case and returned; the channel never holds more than one value and
\* the goroutine ends with the send.
C30_SendNeverBlocks ==
    /\ c.done \in 0..DoneCapacity
    /\ (up /\ gpc = "send") => Room(c.done)
    /\ c.done = 1 => gpc = "idle"

\* C30 witness: the chain came back after the timeout stage had answered and
\* returned; the goroutine has sent its value, which nobody receives, and ended
C30_Witness ==
    /\ Settled /\ c.branch = "timeout" /\ c.atDeadline = "running"
    /\ c.done = 1 /\ gpc = "idle"

=============================================================================
